---------------------------- MODULE Spec2Model ----------------------------
(***************************************************************************)
(* The access-control core of the dashboard: AuthManager                   *)
(* (src/services/auth_manager.py) over the users table of DatabaseManager  *)
(* (src/services/database_manager.py), and the page start-up code that     *)
(* calls them.                                                             *)
(*                                                                         *)
(* Text.  A Python str is modelled as a sequence of tokens.  A token is    *)
(* either the blank " ", the comma "," or a word (a run of other           *)
(* characters, written as one TLA+ string): "admin " is <<"admin", " ">>   *)
(* and "it_ops,admin" is <<"it_ops", ",", "admin">>.  strip, split and     *)
(* join work on the tokens as the Python methods work on the characters.   *)
(*                                                                         *)
(* Hashes.  bcrypt.hashpw(password, gensalt()) is modelled as the record   *)
(* [pw, salt]: the salt is drawn afresh by every call, and checkpw         *)
(* recomputes the hash of the candidate under the stored salt.             *)
(***************************************************************************)
EXTENDS Naturals, Sequences, FiniteSets

VARIABLES
    tableExists,   \* the users table has been created (create_tables)
    users,         \* the rows of the users table, in rowid order
    ret,           \* the last call: its name, what it returned, and whether it
                   \* changed the table
    written,       \* history: per username, the role list the last call that
                   \* wrote its role field was given (<<>> when it has no row)
    callers,       \* concurrent system: per caller, where its call stands and
                   \* what its last call returned
    session        \* per browser session, its st.session_state: logged_in,
                   \* username, roles

vars == <<tableExists, users, ret, written, callers, session>>

-----------------------------------------------------------------------------
(* Bounds of the model                                                     *)

\* gensalt() draws from 1..MaxSalt
MaxSalt == 2
\* role lists given to the pure role functions have at most MaxRoles entries
MaxRoles == 3
\* concurrent system: every caller makes at most MaxCalls calls
MaxCalls == 2
\* stored role strings given to _parse_roles have at most MaxRaw tokens
MaxRaw == 3

-----------------------------------------------------------------------------
(* Python values                                                           *)

\* None, as a value that compares unequal to every row, identity and rowid
None == [py |-> "None"]
EmptyStr == <<>>
Blank == " "
Comma == ","

\* the str made of one word
Str(w) == <<w>>

RECURSIVE lstrip(_)
\* str.lstrip(): leading whitespace removed
lstrip(s) ==
    IF s # <<>> /\ Head(s) = Blank THEN lstrip(Tail(s)) ELSE s

RECURSIVE rstrip(_)
\* str.rstrip(): trailing whitespace removed
rstrip(s) ==
    IF s # <<>> /\ s[Len(s)] = Blank THEN rstrip(SubSeq(s, 1, Len(s) - 1)) ELSE s

\* str.strip()
strip(s) == rstrip(lstrip(s))

RECURSIVE split(_)
\* str.split(","): the pieces between the commas, empty pieces kept
split(s) ==
    IF \A i \in 1..Len(s) : s[i] # Comma
    THEN <<s>>
    ELSE LET k == CHOOSE i \in 1..Len(s) :
                      s[i] = Comma /\ \A j \in 1..(i - 1) : s[j] # Comma
         IN <<SubSeq(s, 1, k - 1)>> \o split(SubSeq(s, k + 1, Len(s)))

RECURSIVE join(_)
\* ",".join(parts)
join(parts) ==
    IF parts = <<>> THEN EmptyStr
    ELSE IF Len(parts) = 1 THEN parts[1]
    ELSE parts[1] \o <<Comma>> \o join(Tail(parts))

-----------------------------------------------------------------------------
(* Roles                                                                   *)

DEFAULT_ROLE_SENTINEL == Str("none")

VALID_ROLES_LIST ==
    <<Str("cybersec_eng"), Str("data_analyst"), Str("it_ops"), Str("admin")>>

VALID_ROLES == {VALID_ROLES_LIST[i] : i \in 1..Len(VALID_ROLES_LIST)}

ROLE_REMAP_KEYS == {Str("cyber_analyst"), Str("cyber"), Str("data_scientist")}

\* faulty variant of ROLE_REMAP_get: the legacy names are not mapped
ROLE_REMAP_get_identity(role) == role

\* ROLE_REMAP.get(role, role)
ROLE_REMAP_get(role) ==
    IF role \in {Str("cyber_analyst"), Str("cyber")} THEN Str("cybersec_eng")
    ELSE IF role = Str("data_scientist") THEN Str("data_analyst")
    ELSE role

IsValidRole(role) == role \in VALID_ROLES

\* faulty variant of _serialise_roles: the roles are joined without the filter
_serialise_roles_unfiltered(roles) ==
    IF roles # <<>> THEN join(roles) ELSE DEFAULT_ROLE_SENTINEL

RECURSIVE joinBlank(_)
\* " ".join(parts)
joinBlank(parts) ==
    IF parts = <<>> THEN EmptyStr
    ELSE IF Len(parts) = 1 THEN parts[1]
    ELSE parts[1] \o <<Blank>> \o joinBlank(Tail(parts))

\* faulty variant of _serialise_roles: the roles are joined with a blank
_serialise_roles_blank(roles) ==
    LET cleaned == SelectSeq(roles, IsValidRole)
    IN IF cleaned # <<>> THEN joinBlank(cleaned) ELSE DEFAULT_ROLE_SENTINEL

\* faulty variant of _serialise_roles: an empty result is stored as the empty string
_serialise_roles_no_sentinel(roles) == join(SelectSeq(roles, IsValidRole))

_serialise_roles(roles) ==
    LET cleaned == SelectSeq(roles, IsValidRole)
    IN IF cleaned # <<>> THEN join(cleaned) ELSE DEFAULT_ROLE_SENTINEL

NonEmptyStr(s) == s # EmptyStr

_parse_roles(raw_roles) ==
    IF raw_roles = EmptyStr \/ raw_roles = DEFAULT_ROLE_SENTINEL
    THEN <<>>
    ELSE LET parts == split(raw_roles)
             stripped == [i \in 1..Len(parts) |-> strip(parts[i])]
             cleaned == SelectSeq(stripped, NonEmptyStr)
             mapped == [i \in 1..Len(cleaned) |-> ROLE_REMAP_get(cleaned[i])]
         IN SelectSeq(mapped, IsValidRole)

-----------------------------------------------------------------------------
(* Passwords                                                               *)

\* bcrypt.hashpw(password, salt) for the salt gensalt() returned
_hash_password(password, salt) == [pw |-> password, salt |-> salt]

\* bcrypt.checkpw: the candidate hashed under the stored salt is the stored hash
_verify_password(password, password_hash) ==
    _hash_password(password, password_hash.salt) = password_hash

Salts == 1..MaxSalt

-----------------------------------------------------------------------------
(* DatabaseManager: the statements AuthManager runs on the users table.    *)
(* A statement is atomic; sqlite3.Error (no such table, UNIQUE constraint  *)
(* failed) is caught and turned into None or the empty list.  The rowid    *)
(* cursor.lastrowid returns is not modelled: its callers only compare it   *)
(* with None.                                                              *)

LastRowId == [py |-> "int"]

\* the indexes of the rows WHERE username = ?  (BINARY collation: exact match)
Matching(rows, username) == {i \in 1..Len(rows) : rows[i].username = username}

\* fetch_one("SELECT ... FROM users WHERE username = ?", (username,))
fetch_one(tbl, rows, username) ==
    IF ~tbl THEN None
    ELSE IF Matching(rows, username) = {} THEN None
    ELSE rows[CHOOSE i \in Matching(rows, username) :
                  \A j \in Matching(rows, username) : i <= j]

\* faulty variant of execute_insert: the UNIQUE constraint on username is not enforced
execute_insert_no_unique(tbl, rows, row) ==
    IF ~tbl THEN [result |-> None, rows |-> rows]
    ELSE [result |-> LastRowId, rows |-> Append(rows, row)]

\* execute("INSERT INTO users (username, password_hash, role) VALUES (?, ?, ?)")
\* on the table of create_tables: username TEXT UNIQUE NOT NULL
execute_insert(tbl, rows, row) ==
    IF ~tbl THEN [result |-> None, rows |-> rows]
    ELSE IF Matching(rows, row.username) # {} THEN [result |-> None, rows |-> rows]
    ELSE [result |-> LastRowId, rows |-> Append(rows, row)]

\* faulty variant of execute_update_role: the new roles are added to the stored ones
execute_update_role_merge(tbl, rows, role, username) ==
    IF ~tbl THEN [result |-> None, rows |-> rows]
    ELSE [result |-> LastRowId,
          rows |-> [i \in 1..Len(rows) |->
                       IF i \in Matching(rows, username)
                       THEN [rows[i] EXCEPT !.role = rows[i].role \o <<Comma>> \o role]
                       ELSE rows[i]]]

\* execute("UPDATE users SET role = ? WHERE username = ?")
execute_update_role(tbl, rows, role, username) ==
    IF ~tbl THEN [result |-> None, rows |-> rows]
    ELSE [result |-> LastRowId,
          rows |-> [i \in 1..Len(rows) |->
                       IF i \in Matching(rows, username)
                       THEN [rows[i] EXCEPT !.role = role]
                       ELSE rows[i]]]

\* faulty variant of execute_update_password: the UPDATE has no WHERE clause
execute_update_password_all_rows(tbl, rows, hash, username) ==
    IF ~tbl THEN [result |-> None, rows |-> rows]
    ELSE [result |-> LastRowId,
          rows |-> [i \in 1..Len(rows) |-> [rows[i] EXCEPT !.password_hash = hash]]]

\* faulty variant of execute_update_password: a row is added when none matches
execute_update_password_upsert(tbl, rows, hash, username) ==
    IF ~tbl THEN [result |-> None, rows |-> rows]
    ELSE IF Matching(rows, username) = {}
    THEN [result |-> LastRowId,
          rows |-> Append(rows, [username |-> username, password_hash |-> hash,
                                 role |-> DEFAULT_ROLE_SENTINEL])]
    ELSE [result |-> LastRowId,
          rows |-> [i \in 1..Len(rows) |->
                       IF i \in Matching(rows, username)
                       THEN [rows[i] EXCEPT !.password_hash = hash]
                       ELSE rows[i]]]

\* execute("UPDATE users SET password_hash = ? WHERE username = ?")
execute_update_password(tbl, rows, hash, username) ==
    IF ~tbl THEN [result |-> None, rows |-> rows]
    ELSE [result |-> LastRowId,
          rows |-> [i \in 1..Len(rows) |->
                       IF i \in Matching(rows, username)
                       THEN [rows[i] EXCEPT !.password_hash = hash]
                       ELSE rows[i]]]

\* faulty variant of execute_delete: the statement removes no row
execute_delete_nothing(tbl, rows, username) ==
    IF ~tbl THEN [result |-> None, rows |-> rows]
    ELSE [result |-> LastRowId, rows |-> rows]

\* execute("DELETE FROM users WHERE username = ?")
execute_delete(tbl, rows, username) ==
    IF ~tbl THEN [result |-> None, rows |-> rows]
    ELSE LET Other(r) == Matching(<<r>>, username) = {}
         IN [result |-> LastRowId, rows |-> SelectSeq(rows, Other)]

\* the words of the model in the byte order of their characters (BINARY collation)
ByteOrder == <<" ", ",", "Alice", "admin", "alice">>

Rank(w) == CHOOSE i \in 1..Len(ByteOrder) : ByteOrder[i] = w

RECURSIVE StrLess(_, _)
\* a < b for two str, as ORDER BY username compares them
StrLess(a, b) ==
    IF b = <<>> THEN FALSE
    ELSE IF a = <<>> THEN TRUE
    ELSE IF Head(a) # Head(b) THEN Rank(Head(a)) < Rank(Head(b))
    ELSE StrLess(Tail(a), Tail(b))

RECURSIVE OrderByUsername(_)
\* the rows ORDER BY username (ascending; rows of one username keep rowid order)
OrderByUsername(rows) ==
    IF rows = <<>> THEN <<>>
    ELSE LET k == CHOOSE i \in 1..Len(rows) :
                      \A j \in 1..Len(rows) :
                          \/ StrLess(rows[i].username, rows[j].username)
                          \/ (rows[i].username = rows[j].username /\ i <= j)
             rest == [i \in 1..(Len(rows) - 1) |-> IF i < k THEN rows[i] ELSE rows[i + 1]]
         IN <<rows[k]>> \o OrderByUsername(rest)

\* faulty variant of fetch_all: the rows come in rowid order
fetch_all_unordered(tbl, rows) ==
    IF ~tbl THEN <<>> ELSE rows

\* fetch_all("SELECT id, username, role FROM users ORDER BY username")
fetch_all(tbl, rows) ==
    IF ~tbl THEN <<>> ELSE OrderByUsername(rows)

-----------------------------------------------------------------------------
(* AuthManager: each method as a function of the store and its arguments,  *)
(* giving what it returns and the rows it leaves.                          *)

MsgRequired == "Username and password are required."
MsgExists == "Username already exists."
MsgRegistered == "Registration successful. Ask an admin to assign roles."
MsgCreated == "User created."

NewRow(username, password_hash, role) ==
    [username |-> username, password_hash |-> password_hash, role |-> role]

\* faulty variant of register_user: the required-field check is missing
register_user_no_required(tbl, rows, username, password, salt) ==
    LET name == strip(username)
    IN IF fetch_one(tbl, rows, name) # None
       THEN [ok |-> FALSE, message |-> MsgExists, rows |-> rows]
       ELSE [ok |-> TRUE, message |-> MsgRegistered,
             rows |-> execute_insert(tbl, rows,
                          NewRow(name, _hash_password(password, salt),
                                 DEFAULT_ROLE_SENTINEL)).rows]

\* faulty variant of register_user: the new account is given a starting role
register_user_with_role(tbl, rows, username, password, salt) ==
    LET name == strip(username)
    IN IF name = EmptyStr \/ password = EmptyStr
       THEN [ok |-> FALSE, message |-> MsgRequired, rows |-> rows]
       ELSE IF fetch_one(tbl, rows, name) # None
       THEN [ok |-> FALSE, message |-> MsgExists, rows |-> rows]
       ELSE [ok |-> TRUE, message |-> MsgRegistered,
             rows |-> execute_insert(tbl, rows,
                          NewRow(name, _hash_password(password, salt),
                                 Str("data_analyst"))).rows]

register_user(tbl, rows, username, password, salt) ==
    LET name == strip(username)
    IN IF name = EmptyStr \/ password = EmptyStr
       THEN [ok |-> FALSE, message |-> MsgRequired, rows |-> rows]
       ELSE IF fetch_one(tbl, rows, name) # None
       THEN [ok |-> FALSE, message |-> MsgExists, rows |-> rows]
       ELSE [ok |-> TRUE, message |-> MsgRegistered,
             rows |-> execute_insert(tbl, rows,
                          NewRow(name, _hash_password(password, salt),
                                 DEFAULT_ROLE_SENTINEL)).rows]

\* faulty variant of create_user: a role list with a name outside VALID_ROLES is refused
create_user_strict(tbl, rows, username, password, roles, salt) ==
    LET name == strip(username)
    IN IF name = EmptyStr \/ password = EmptyStr
       THEN [ok |-> FALSE, message |-> MsgRequired, rows |-> rows]
       ELSE IF fetch_one(tbl, rows, name) # None
       THEN [ok |-> FALSE, message |-> MsgExists, rows |-> rows]
       ELSE IF SelectSeq(roles, IsValidRole) # roles
       THEN [ok |-> FALSE, message |-> MsgRequired, rows |-> rows]
       ELSE [ok |-> TRUE, message |-> MsgCreated,
             rows |-> execute_insert(tbl, rows,
                          NewRow(name, _hash_password(password, salt),
                                 _serialise_roles(roles))).rows]

create_user(tbl, rows, username, password, roles, salt) ==
    LET name == strip(username)
    IN IF name = EmptyStr \/ password = EmptyStr
       THEN [ok |-> FALSE, message |-> MsgRequired, rows |-> rows]
       ELSE IF fetch_one(tbl, rows, name) # None
       THEN [ok |-> FALSE, message |-> MsgExists, rows |-> rows]
       ELSE [ok |-> TRUE, message |-> MsgCreated,
             rows |-> execute_insert(tbl, rows,
                          NewRow(name, _hash_password(password, salt),
                                 _serialise_roles(roles))).rows]

\* User(username, roles)
User(username, roles) == [username |-> username, roles |-> roles]

\* faulty variant of login_user: the password is not verified
login_user_no_verify(tbl, rows, username, password) ==
    LET name == strip(username)
        row == fetch_one(tbl, rows, name)
    IN IF name = EmptyStr \/ password = EmptyStr THEN None
       ELSE IF row = None THEN None
       ELSE User(row.username, _parse_roles(row.role))

login_user(tbl, rows, username, password) ==
    LET name == strip(username)
        row == fetch_one(tbl, rows, name)
    IN IF name = EmptyStr \/ password = EmptyStr THEN None
       ELSE IF row = None THEN None
       ELSE IF _verify_password(password, row.password_hash)
       THEN User(row.username, _parse_roles(row.role))
       ELSE None

get_all_users(tbl, rows) ==
    LET found == fetch_all(tbl, rows)
    IN [i \in 1..Len(found) |->
           [username |-> found[i].username, role |-> found[i].role,
            roles |-> _parse_roles(found[i].role)]]

\* faulty variant of update_user_roles: the UPDATE has no WHERE clause
update_user_roles_all_rows(tbl, rows, username, roles) ==
    [out |-> tbl,
     rows |-> IF tbl
              THEN [i \in 1..Len(rows) |->
                       [rows[i] EXCEPT !.role = _serialise_roles(roles)]]
              ELSE rows]

update_user_roles(tbl, rows, username, roles) ==
    LET res == execute_update_role(tbl, rows, _serialise_roles(roles), username)
    IN [out |-> res.result # None, rows |-> res.rows]

\* faulty variant of update_user_password: the empty password is not refused
update_user_password_any(tbl, rows, username, new_password, salt) ==
    LET res == execute_update_password(tbl, rows,
                   _hash_password(new_password, salt), username)
    IN [out |-> res.result # None, rows |-> res.rows]

update_user_password(tbl, rows, username, new_password, salt) ==
    IF new_password = EmptyStr THEN [out |-> FALSE, rows |-> rows]
    ELSE LET res == execute_update_password(tbl, rows,
                        _hash_password(new_password, salt), username)
         IN [out |-> res.result # None, rows |-> res.rows]

\* faulty variant of delete_user: the built-in admin is not protected
delete_user_unguarded(tbl, rows, username) ==
    LET res == execute_delete(tbl, rows, username)
    IN [out |-> res.result # None, rows |-> res.rows]

delete_user(tbl, rows, username) ==
    IF username = Str("admin") THEN [out |-> FALSE, rows |-> rows]
    ELSE LET res == execute_delete(tbl, rows, username)
         IN [out |-> res.result # None, rows |-> res.rows]

ensure_admin_user(tbl, rows, salt) ==
    IF fetch_one(tbl, rows, Str("admin")) # None THEN rows
    ELSE execute_insert(tbl, rows,
             NewRow(Str("admin"), _hash_password(Str("admin"), salt),
                    Str("admin"))).rows

-----------------------------------------------------------------------------
(* The arguments the callers draw from                                     *)

UsernameArgs ==
    {EmptyStr, <<Blank>>, Str("admin"), <<Blank, "admin", Blank>>, Str("alice")}

PasswordArgs == {EmptyStr, <<Blank>>, Str("pw")}

\* passwords tried at the login form: the bootstrap password as well
LoginPasswordArgs == PasswordArgs \cup {Str("admin")}

\* role lists: empty, valid, and one mixing an unknown name, a legacy name and
\* the empty name with a valid role
RoleArgs ==
    {<<>>, <<Str("admin")>>,
     <<Str("bogus_role"), Str("cyber"), EmptyStr, Str("it_ops")>>}

\* the arguments of the concurrent callers
ConcUsernameArgs == {<<Blank>>, <<Blank, "alice">>, Str("Alice"), Str("admin")}

ConcPasswordArgs == {Str("pw"), <<Blank>>}

\* gensalt() in the concurrent system: a salt of its own for every call, named
\* by the caller and the number of the call
FreshSalt(c, made) == <<c, made>>

ConcRoleArgs == {<<Str("bogus_role"), Str("it_ops")>>}

\* concurrent update_user_roles calls: the account they are for, and two role
\* lists with different valid roles
ConcUpdateUsernameArgs == {Str("alice")}

ConcUpdateRoleArgs == {<<Str("data_analyst")>>, <<Str("admin"), Str("bogus_role")>>}

\* the usernames a row can carry
Names ==
    ({strip(u) : u \in UsernameArgs \cup ConcUsernameArgs} \cup {Str("admin")})
        \ {EmptyStr}

\* the concurrent callers (sessions of the Streamlit server)
Callers == {1, 2}

\* a caller between calls: made calls so far, and what its last call returned
NoCall == [op |-> "none"]
Idle(made, last) == [at |-> "idle", made |-> made, last |-> last]

\* st.session_state of a session that has not logged in: logged_in False (or
\* absent, which .get reads as falsy), username "", roles []
NoSession == [logged_in |-> FALSE, username |-> EmptyStr, roles |-> <<>>]

\* Optional values of the history: <<>> for nothing, <<x>> for x
Some(x) == <<x>>

\* history after an INSERT of name with the role list roles
HistInsert(rows, rows2, name, roles) ==
    IF rows2 # rows THEN [written EXCEPT ![name] = Some(roles)] ELSE written

\* history after an UPDATE of username's role with the role list roles
HistUpdate(tbl, rows, username, roles) ==
    IF tbl /\ Matching(rows, username) # {}
    THEN [written EXCEPT ![username] = Some(roles)]
    ELSE written

\* history after a DELETE
HistDelete(rows2) ==
    [n \in Names |-> IF Matching(rows2, n) = {} THEN <<>> ELSE written[n]]

-----------------------------------------------------------------------------
(* The sequential system: one call at a time, each running to completion   *)

Init ==
    /\ tableExists = FALSE
    /\ users = <<>>
    /\ ret = [op |-> "init"]
    /\ written = [n \in Names |-> <<>>]
    /\ callers = [c \in Callers |-> Idle(0, NoCall)]
    /\ session = [c \in Callers |-> NoSession]

\* create_tables(): CREATE TABLE IF NOT EXISTS users
create_tables(tbl) == TRUE

\* Dashboard.py, module start-up: create_tables(), then ensure_admin_user()
DashboardStart ==
    \E salt \in Salts :
        LET tbl == create_tables(tableExists)
            rows2 == ensure_admin_user(tbl, users, salt)
        IN /\ tableExists' = tbl
           /\ users' = rows2
           /\ ret' = [op |-> "ensure_admin_user", changed |-> rows2 # users]
           /\ written' = HistInsert(users, rows2, Str("admin"), <<Str("admin")>>)
           /\ UNCHANGED <<callers, session>>

\* pages/Login.py, module start-up: ensure_admin_user() alone
LoginPageStart ==
    \E salt \in Salts :
        LET rows2 == ensure_admin_user(tableExists, users, salt)
        IN /\ users' = rows2
           /\ ret' = [op |-> "ensure_admin_user", changed |-> rows2 # users]
           /\ written' = HistInsert(users, rows2, Str("admin"), <<Str("admin")>>)
           /\ UNCHANGED <<tableExists, callers, session>>

\* pages/Login.py, registration_form: register_user(username, password)
RegisterUser ==
    \E username \in UsernameArgs, password \in PasswordArgs, salt \in Salts :
        LET r == register_user(tableExists, users, username, password, salt)
        IN /\ users' = r.rows
           /\ ret' = [op |-> "register_user", ok |-> r.ok, message |-> r.message,
                      changed |-> r.rows # users]
           /\ written' = HistInsert(users, r.rows, strip(username), <<>>)
           /\ UNCHANGED <<tableExists, callers, session>>

\* pages/6_User_Management.py, show_create_modal: create_user(username, password, roles)
CreateUser ==
    \E username \in UsernameArgs, password \in PasswordArgs,
       roles \in RoleArgs, salt \in Salts :
        LET r == create_user(tableExists, users, username, password, roles, salt)
        IN /\ users' = r.rows
           /\ ret' = [op |-> "create_user", ok |-> r.ok, message |-> r.message,
                      changed |-> r.rows # users]
           /\ written' = HistInsert(users, r.rows, strip(username), roles)
           /\ UNCHANGED <<tableExists, callers, session>>

\* pages/Login.py, login_form: login_user(username, password)
LoginUser ==
    \E username \in UsernameArgs, password \in LoginPasswordArgs :
        /\ ret' = [op |-> "login_user",
                   out |-> login_user(tableExists, users, username, password)]
        /\ UNCHANGED <<tableExists, users, written, callers, session>>

\* pages/6_User_Management.py, main: get_all_users()
GetAllUsers ==
    /\ ret' = [op |-> "get_all_users", out |-> get_all_users(tableExists, users)]
    /\ UNCHANGED <<tableExists, users, written, callers, session>>

\* pages/6_User_Management.py, show_edit_modal: update_user_roles(username, roles)
UpdateUserRoles ==
    \E username \in UsernameArgs, roles \in RoleArgs :
        LET r == update_user_roles(tableExists, users, username, roles)
        IN /\ users' = r.rows
           /\ ret' = [op |-> "update_user_roles", out |-> r.out,
                      changed |-> r.rows # users]
           /\ written' = HistUpdate(tableExists, users, username, roles)
           /\ UNCHANGED <<tableExists, callers, session>>

\* pages/6_User_Management.py, show_edit_modal: update_user_password(username, new_password)
UpdateUserPassword ==
    \E username \in UsernameArgs, new_password \in PasswordArgs, salt \in Salts :
        LET r == update_user_password(tableExists, users, username, new_password, salt)
        IN /\ users' = r.rows
           /\ ret' = [op |-> "update_user_password", out |-> r.out,
                      changed |-> r.rows # users]
           /\ UNCHANGED <<tableExists, written, callers, session>>

\* pages/6_User_Management.py, show_delete_modal: delete_user(username)
DeleteUser ==
    \E username \in UsernameArgs :
        LET r == delete_user(tableExists, users, username)
        IN /\ users' = r.rows
           /\ ret' = [op |-> "delete_user", out |-> r.out, changed |-> r.rows # users]
           /\ written' = HistDelete(r.rows)
           /\ UNCHANGED <<tableExists, callers, session>>

Next ==
    \/ DashboardStart
    \/ LoginPageStart
    \/ RegisterUser
    \/ CreateUser
    \/ LoginUser
    \/ GetAllUsers
    \/ UpdateUserRoles
    \/ UpdateUserPassword
    \/ DeleteUser

Spec == Init /\ [][Next]_vars

-----------------------------------------------------------------------------
(* The concurrent system: the callers are sessions served at once.  Each   *)
(* DatabaseManager call is one atomic statement on its own connection; a   *)
(* method that runs two statements (the SELECT of the duplicate check,     *)
(* then the INSERT) can be overtaken between them.                         *)

ConcInit ==
    /\ tableExists = FALSE
    /\ users = <<>>
    /\ ret = [op |-> "init"]
    /\ written = [n \in Names |-> <<>>]
    /\ callers = [c \in Callers |-> Idle(0, NoCall)]
    /\ session = [c \in Callers |-> NoSession]

\* a caller about to run the INSERT of op for row
Inserting(made, op, row, roles) ==
    [at |-> "insert", made |-> made, op |-> op, row |-> row, roles |-> roles]

\* register_user or create_user returned (True, message) to the caller that
\* gave it name (trimmed) and password
Accepted(op, name, password) ==
    [op |-> op, ok |-> TRUE, username |-> name, password |-> password]

\* register_user or create_user returned (False, message)
Refused(op, message) == [op |-> op, ok |-> FALSE, message |-> message]

\* ensure_admin_user returned; table: the users table existed at its last statement
Ensured(table) == [op |-> "ensure_admin_user", table |-> table]

CanCall(c) == callers[c].at = "idle" /\ callers[c].made < MaxCalls

\* ensure_admin_user, first statement: SELECT id FROM users WHERE username = 'admin'
EnsureSelect(c, made) ==
    /\ IF fetch_one(tableExists, users, Str("admin")) # None
       THEN callers' = [callers EXCEPT ![c] = Idle(made, Ensured(tableExists))]
       ELSE callers' = [callers EXCEPT ![c] =
                Inserting(made, "ensure_admin_user",
                          NewRow(Str("admin"),
                                 _hash_password(Str("admin"), FreshSalt(c, made)),
                                 Str("admin")),
                          <<Str("admin")>>)]
    /\ UNCHANGED <<tableExists, users, ret, written, session>>

\* Dashboard.py start-up, first statement: create_tables()
ConcDashboardStart(c) ==
    /\ CanCall(c)
    /\ tableExists' = create_tables(tableExists)
    /\ callers' = [callers EXCEPT ![c] =
                      [at |-> "ensure", made |-> callers[c].made + 1]]
    /\ UNCHANGED <<users, ret, written, session>>

\* Dashboard.py start-up, next statement: the SELECT of ensure_admin_user
ConcEnsureSelect(c) ==
    /\ callers[c].at = "ensure"
    /\ EnsureSelect(c, callers[c].made)

\* pages/Login.py start-up: the SELECT of ensure_admin_user
ConcLoginPageStart(c) ==
    /\ CanCall(c)
    /\ EnsureSelect(c, callers[c].made + 1)

\* register_user up to its SELECT; create_user is the same but for the role field
BeginInsertCall(c, op, username, password, roles, role) ==
    LET name == strip(username)
        made == callers[c].made + 1
    IN /\ CanCall(c)
       /\ IF name = EmptyStr \/ password = EmptyStr
          THEN callers' = [callers EXCEPT ![c] = Idle(made, Refused(op, MsgRequired))]
          ELSE IF fetch_one(tableExists, users, name) # None
          THEN callers' = [callers EXCEPT ![c] = Idle(made, Refused(op, MsgExists))]
          ELSE callers' = [callers EXCEPT ![c] =
                   Inserting(made, op,
                             NewRow(name, _hash_password(password, FreshSalt(c, made)),
                                    role),
                             roles)]
       /\ UNCHANGED <<tableExists, users, ret, written, session>>

\* register_user(username, password): validation and duplicate check
ConcRegisterSelect(c) ==
    \E username \in ConcUsernameArgs, password \in ConcPasswordArgs :
        BeginInsertCall(c, "register_user", username, password, <<>>,
                        DEFAULT_ROLE_SENTINEL)

\* create_user(username, password, roles): validation and duplicate check
ConcCreateSelect(c) ==
    \E username \in ConcUsernameArgs, password \in {Str("pw")},
       roles \in ConcRoleArgs :
        BeginInsertCall(c, "create_user", username, password, roles,
                        _serialise_roles(roles))

\* the INSERT of register_user, create_user or ensure_admin_user; its result
\* is not looked at, and register_user and create_user return ok=True
ConcInsert(c) ==
    /\ callers[c].at = "insert"
    /\ LET call == callers[c]
           ins == execute_insert(tableExists, users, call.row)
       IN /\ users' = ins.rows
          /\ written' = HistInsert(users, ins.rows, call.row.username, call.roles)
          /\ callers' = [callers EXCEPT ![c] =
                 Idle(call.made,
                      IF call.op = "ensure_admin_user"
                      THEN Ensured(tableExists)
                      ELSE Accepted(call.op, call.row.username,
                                    call.row.password_hash.pw))]
    /\ UNCHANGED <<tableExists, ret, session>>

\* a caller about to run the UPDATE of update_user_roles
Updating(made, username, roles, serialised) ==
    [at |-> "update", made |-> made, username |-> username, roles |-> roles,
     serialised |-> serialised]

\* update_user_roles(username, roles) returned out; found: the account existed
\* when the UPDATE ran; raced: another caller was inside update_user_roles then
Updated(username, roles, out, found, raced) ==
    [op |-> "update_user_roles", username |-> username, roles |-> roles,
     out |-> out, found |-> found, raced |-> raced]

\* update_user_roles(username, roles) up to its UPDATE: _serialise_roles(roles)
ConcUpdateRolesBegin(c) ==
    \E username \in ConcUpdateUsernameArgs, roles \in ConcUpdateRoleArgs :
        /\ CanCall(c)
        /\ callers' = [callers EXCEPT ![c] =
               Updating(callers[c].made + 1, username, roles, _serialise_roles(roles))]
        /\ UNCHANGED <<tableExists, users, ret, written, session>>

\* the UPDATE of update_user_roles, and its return
ConcUpdateRoles(c) ==
    /\ callers[c].at = "update"
    /\ LET call == callers[c]
           res == execute_update_role(tableExists, users, call.serialised, call.username)
       IN /\ users' = res.rows
          /\ written' = HistUpdate(tableExists, users, call.username, call.roles)
          /\ callers' = [callers EXCEPT ![c] =
                 Idle(call.made,
                      Updated(call.username, call.roles, res.result # None,
                              tableExists /\ Matching(users, call.username) # {},
                              \E d \in Callers \ {c} : callers[d].at = "update"))]
    /\ UNCHANGED <<tableExists, ret, session>>

ConcNext ==
    \E c \in Callers :
        \/ ConcDashboardStart(c)
        \/ ConcEnsureSelect(c)
        \/ ConcLoginPageStart(c)
        \/ ConcRegisterSelect(c)
        \/ ConcCreateSelect(c)
        \/ ConcInsert(c)
        \/ ConcUpdateRolesBegin(c)
        \/ ConcUpdateRoles(c)

ConcSpec == ConcInit /\ [][ConcNext]_vars

\* The concurrent registrations alone, on the store Dashboard.py start-up
\* leaves: the users table exists and holds the bootstrap account
RaceInit ==
    /\ tableExists = TRUE
    /\ users = <<NewRow(Str("admin"), _hash_password(Str("admin"), 1), Str("admin"))>>
    /\ ret = [op |-> "init"]
    /\ written = [n \in Names |-> IF n = Str("admin") THEN Some(<<Str("admin")>>) ELSE <<>>]
    /\ callers = [c \in Callers |-> Idle(0, NoCall)]
    /\ session = [c \in Callers |-> NoSession]

RaceNext ==
    \E c \in Callers :
        \/ ConcRegisterSelect(c)
        \/ ConcCreateSelect(c)
        \/ ConcInsert(c)

RaceSpec == RaceInit /\ [][RaceNext]_vars

\* The edit and delete dialogs of the User Management page run by sessions
\* served at once, with registrations, on a store that holds the bootstrap
\* account and alice.

\* a caller about to run the UPDATE of update_user_password
UpdatingPassword(made, username, new_hash) ==
    [at |-> "update_password", made |-> made, username |-> username,
     new_hash |-> new_hash]

\* update_user_password(username, new_password) returned out
PasswordUpdated(username, out) ==
    [op |-> "update_user_password", username |-> username, out |-> out]

\* delete_user(username) returned out
Deleted(username, out) == [op |-> "delete_user", username |-> username, out |-> out]

ConcDeleteUsernameArgs == {Str("alice"), Str("admin")}

ConcNewPasswordArgs == {Str("new"), EmptyStr}

\* update_user_password(username, new_password) up to its UPDATE: the check of
\* the password and _hash_password
ConcUpdatePasswordBegin(c) ==
    \E username \in ConcUpdateUsernameArgs, new_password \in ConcNewPasswordArgs :
        LET made == callers[c].made + 1
        IN /\ CanCall(c)
           /\ IF new_password = EmptyStr
              THEN callers' = [callers EXCEPT ![c] =
                       Idle(made, PasswordUpdated(username, FALSE))]
              ELSE callers' = [callers EXCEPT ![c] =
                       UpdatingPassword(made, username,
                           _hash_password(new_password, FreshSalt(c, made)))]
           /\ UNCHANGED <<tableExists, users, ret, written, session>>

\* the UPDATE of update_user_password, and its return
ConcUpdatePassword(c) ==
    /\ callers[c].at = "update_password"
    /\ LET call == callers[c]
           res == execute_update_password(tableExists, users, call.new_hash,
                                          call.username)
       IN /\ users' = res.rows
          /\ callers' = [callers EXCEPT ![c] =
                 Idle(call.made, PasswordUpdated(call.username, res.result # None))]
    /\ UNCHANGED <<tableExists, ret, written, session>>

\* delete_user(username): the test for "admin" reads nothing shared, and the
\* DELETE is one statement
ConcDelete(c) ==
    \E username \in ConcDeleteUsernameArgs :
        LET r == delete_user(tableExists, users, username)
        IN /\ CanCall(c)
           /\ users' = r.rows
           /\ written' = HistDelete(r.rows)
           /\ callers' = [callers EXCEPT ![c] =
                  Idle(callers[c].made + 1, Deleted(username, r.out))]
           /\ UNCHANGED <<tableExists, ret, session>>

DeleteInit ==
    /\ tableExists = TRUE
    /\ users = <<NewRow(Str("admin"), _hash_password(Str("admin"), 1), Str("admin")),
                 NewRow(Str("alice"), _hash_password(Str("pw"), 1), Str("it_ops"))>>
    /\ ret = [op |-> "init"]
    /\ written = [n \in Names |->
                     IF n = Str("admin") THEN Some(<<Str("admin")>>)
                     ELSE IF n = Str("alice") THEN Some(<<Str("it_ops")>>)
                     ELSE <<>>]
    /\ callers = [c \in Callers |-> Idle(0, NoCall)]
    /\ session = [c \in Callers |-> NoSession]

DeleteNext ==
    \E c \in Callers :
        \/ ConcDelete(c)
        \/ ConcUpdateRolesBegin(c)
        \/ ConcUpdateRoles(c)
        \/ ConcUpdatePasswordBegin(c)
        \/ ConcUpdatePassword(c)
        \/ ConcRegisterSelect(c)
        \/ ConcInsert(c)

DeleteSpec == DeleteInit /\ [][DeleteNext]_vars

-----------------------------------------------------------------------------
(* The role functions alone: Init draws an argument, the actions apply     *)
(* _serialise_roles and _parse_roles to it.                                *)

\* the role names the lists are made of: the valid ones, a legacy name, an unknown one
RoleNameArgs == VALID_ROLES \cup {Str("cyber"), Str("bogus_role")}

\* every list of at most n role names
RoleLists(n) == UNION {[1..k -> RoleNameArgs] : k \in 0..n}

\* stored strings given to _parse_roles besides those _serialise_roles produces
RawRoleArgs ==
    {EmptyStr, DEFAULT_ROLE_SENTINEL,
     Str("cyber_analyst"), Str("cyber"), Str("data_scientist"),
     <<Blank, "cyber", Blank, Comma, Comma, "it_ops", Blank>>,
     <<"admin", Comma, "bogus_role", Comma, "data_scientist">>,
     <<"none", Comma, "admin">>, <<Blank>>, <<Comma>>,
     <<"admin", Blank, "it_ops">>}

\* the tokens stored role strings are made of
RawTokens == {Blank, Comma, "none", "cyber", "admin", "it_ops", "bogus_role"}

\* every string of at most n tokens
RawStrings(n) == UNION {[1..k -> RawTokens] : k \in 0..n}

RolesInit ==
    /\ tableExists = FALSE
    /\ users = <<>>
    /\ written = [n \in Names |-> <<>>]
    /\ callers = [c \in Callers |-> Idle(0, NoCall)]
    /\ session = [c \in Callers |-> NoSession]
    /\ ret \in {[op |-> "call", fn |-> "_serialise_roles", arg |-> roles] :
                    roles \in RoleLists(MaxRoles)}
               \cup {[op |-> "call", fn |-> "_parse_roles", arg |-> raw] :
                    raw \in RawRoleArgs \cup RawStrings(MaxRaw)}

\* _serialise_roles(roles)
SerialiseRoles ==
    /\ ret.op = "call" /\ ret.fn = "_serialise_roles"
    /\ ret' = [op |-> "_serialise_roles", arg |-> ret.arg,
               out |-> _serialise_roles(ret.arg)]
    /\ UNCHANGED <<tableExists, users, written, callers, session>>

\* _parse_roles(raw_roles) on a string read from the table
ParseRoles ==
    /\ ret.op = "call" /\ ret.fn = "_parse_roles"
    /\ ret' = [op |-> "_parse_roles", arg |-> ret.arg, out |-> _parse_roles(ret.arg)]
    /\ UNCHANGED <<tableExists, users, written, callers, session>>

\* _parse_roles(_serialise_roles(roles)): what was stored is read back
ParseSerialised ==
    /\ ret.op = "_serialise_roles"
    /\ ret' = [op |-> "round_trip", arg |-> ret.arg, stored |-> ret.out,
               out |-> _parse_roles(ret.out)]
    /\ UNCHANGED <<tableExists, users, written, callers, session>>

RolesNext == SerialiseRoles \/ ParseRoles \/ ParseSerialised

RolesSpec == RolesInit /\ [][RolesNext]_vars

-----------------------------------------------------------------------------
(* The pages.  Every role-gated page starts with a guard that reads the    *)
(* session; the Dashboard shows one card per page.  A guard gives "login"  *)
(* (switch to the login page), "stop" (access refused) or "pass".          *)
(* The page system runs one script of one session at a time, each to       *)
(* completion; it keeps no history of the role lists (written).            *)

\* set(st.session_state.get("roles", []))
RoleSet(roles) == {roles[i] : i \in 1..Len(roles)}

\* the role-gated pages, by the label of their Dashboard card
GatedPages ==
    {"Incident Reporting", "Data Analysis", "IT Ticketing", "User Management",
     "Settings", "AI Workspace"}

\* CARDS: the "roles" entry of the card of each page
CARDS ==
    [page \in GatedPages |->
        CASE page = "Incident Reporting" -> {Str("cybersec_eng"), Str("admin")}
          [] page = "Data Analysis" -> {Str("data_analyst"), Str("admin")}
          [] page = "IT Ticketing" -> {Str("it_ops"), Str("admin")}
          [] page = "User Management" -> {Str("admin")}
          [] page = "Settings" -> {Str("admin")}
          [] page = "AI Workspace" -> VALID_ROLES]

\* ALLOWED_ROLES of the pages whose guard tests it
ALLOWED_ROLES ==
    [page \in {"Incident Reporting", "Data Analysis", "IT Ticketing", "AI Workspace"} |->
        CASE page = "Incident Reporting" -> {Str("cybersec_eng"), Str("admin")}
          [] page = "Data Analysis" -> {Str("data_analyst"), Str("admin")}
          [] page = "IT Ticketing" -> {Str("it_ops"), Str("admin")}
          [] page = "AI Workspace" -> VALID_ROLES]

\* faulty variant of guard_page: admin is a role like the others
guard_page_no_superset(page, state) ==
    IF ~state.logged_in THEN "login"
    ELSE IF page = "Settings" THEN "pass"
    ELSE IF page = "User Management"
    THEN IF Str("admin") \notin RoleSet(state.roles) THEN "stop" ELSE "pass"
    ELSE IF RoleSet(state.roles) \cap (ALLOWED_ROLES[page] \ {Str("admin")}) = {}
    THEN "stop"
    ELSE "pass"

\* guard_page() of the page (main() of the Settings page, which has no guard_page)
guard_page(page, state) ==
    IF ~state.logged_in THEN "login"
    ELSE IF page = "Settings" THEN "pass"
    ELSE IF page = "User Management"
    THEN IF Str("admin") \notin RoleSet(state.roles) THEN "stop" ELSE "pass"
    ELSE IF Str("admin") \in RoleSet(state.roles) THEN "pass"
    ELSE IF RoleSet(state.roles) \cap ALLOWED_ROLES[page] = {} THEN "stop"
    ELSE "pass"

\* guard_login() of the Dashboard
guard_login(state) == IF ~state.logged_in THEN "login" ELSE "pass"

\* render_cards(): the card is enabled (allowed) for the roles of the session
allowed(card, roles) ==
    \/ CARDS[card] = {}
    \/ Str("admin") \in RoleSet(roles)
    \/ RoleSet(roles) \cap CARDS[card] # {}

\* the session after a login: logged_in, username and roles of the identity
LoggedIn(user) == [logged_in |-> TRUE, username |-> user.username, roles |-> user.roles]

\* faulty variant of LoggedOut: "Log out" clears logged_in alone and the
\* identity (here that of admin) stays in the session
LoggedOut_stale ==
    [logged_in |-> FALSE, username |-> Str("admin"), roles |-> <<Str("admin")>>]

\* the session after "Log out"
LoggedOut == [logged_in |-> FALSE, username |-> EmptyStr, roles |-> <<>>]

\* what the forms of the pages are given
PageUsernameArgs == {Str("admin"), Str("Alice")}

\* the passwords typed into the login form
PagePasswordArgs == {Str("admin"), Str("pw")}

\* the password typed into the registration, create and edit forms
PageNewPasswordArgs == {Str("pw")}

\* the multiselect of the create and edit forms: lists of valid roles
PageRoleArgs == {<<Str("it_ops")>>, <<Str("data_analyst"), Str("admin")>>}

\* gensalt() in the page system: the salt plays no part in what the pages do,
\* and every hash is made with the same one
PageSalts == {1}

PageInit ==
    /\ tableExists = FALSE
    /\ users = <<>>
    /\ ret = [op |-> "init"]
    /\ written = [n \in Names |-> <<>>]
    /\ callers = [c \in Callers |-> Idle(0, NoCall)]
    /\ session = [c \in Callers |-> NoSession]

\* Dashboard.py run by session c: create_tables(), ensure_admin_user(),
\* guard_login(), render_cards()
PageDashboard(c) ==
    \E salt \in PageSalts :
        LET tbl == create_tables(tableExists)
        IN /\ tableExists' = tbl
           /\ users' = ensure_admin_user(tbl, users, salt)
           /\ ret' = [op |-> "Dashboard", c |-> c,
                      outcome |-> guard_login(session[c]),
                      cards |-> IF guard_login(session[c]) = "pass"
                                THEN {card \in GatedPages : allowed(card, session[c].roles)}
                                ELSE {}]
           /\ UNCHANGED <<written, callers, session>>

\* Dashboard.py run with "Log out" clicked in its sidebar
PageDashboardLogout(c) ==
    \E salt \in PageSalts :
        LET tbl == create_tables(tableExists)
        IN /\ guard_login(session[c]) = "pass"
           /\ tableExists' = tbl
           /\ users' = ensure_admin_user(tbl, users, salt)
           /\ session' = [session EXCEPT ![c] = LoggedOut]
           /\ ret' = [op |-> "logout"]
           /\ UNCHANGED <<written, callers>>

\* a role-gated page run by session c: its guard
PageOpen(c) ==
    \E page \in GatedPages :
        /\ ret' = [op |-> "open", c |-> c, page |-> page,
                   outcome |-> guard_page(page, session[c])]
        /\ UNCHANGED <<tableExists, users, written, callers, session>>

\* a role-gated page run with "Log out" clicked in sidebar_user_box
PageSidebarLogout(c) ==
    \E page \in GatedPages :
        /\ guard_page(page, session[c]) = "pass"
        /\ session' = [session EXCEPT ![c] = LoggedOut]
        /\ ret' = [op |-> "logout"]
        /\ UNCHANGED <<tableExists, users, written, callers>>

\* pages/Login.py run with the login form submitted: ensure_admin_user(),
\* then login_form
PageLogin(c) ==
    \E username \in PageUsernameArgs, password \in PagePasswordArgs, salt \in PageSalts :
        LET rows2 == ensure_admin_user(tableExists, users, salt)
            user == login_user(tableExists, rows2, username, password)
        IN /\ users' = rows2
           /\ session' = IF user # None
                         THEN [session EXCEPT ![c] = LoggedIn(user)]
                         ELSE session
           /\ ret' = [op |-> "login_form", c |-> c, user |-> user]
           /\ UNCHANGED <<tableExists, written, callers>>

\* pages/Login.py run with the registration form submitted: ensure_admin_user(),
\* then registration_form
PageRegister(c) ==
    \E username \in PageUsernameArgs, password \in PageNewPasswordArgs, salt \in PageSalts :
        LET rows2 == ensure_admin_user(tableExists, users, salt)
            r == register_user(tableExists, rows2, username, password, salt)
        IN /\ users' = r.rows
           /\ ret' = [op |-> "registration_form", ok |-> r.ok]
           /\ UNCHANGED <<tableExists, written, callers, session>>

\* pages/6_User_Management.py run: guard_page(), get_all_users()
PageListUsers(c) ==
    /\ guard_page("User Management", session[c]) = "pass"
    /\ ret' = [op |-> "user_directory",
               out |-> get_all_users(tableExists, users)]
    /\ UNCHANGED <<tableExists, users, written, callers, session>>

\* pages/6_User_Management.py run with the create form submitted
PageCreateUser(c) ==
    \E username \in PageUsernameArgs, password \in PageNewPasswordArgs,
       roles \in PageRoleArgs, salt \in PageSalts :
        LET r == create_user(tableExists, users, username, password, roles, salt)
        IN /\ guard_page("User Management", session[c]) = "pass"
           /\ users' = r.rows
           /\ ret' = [op |-> "create_user_form", ok |-> r.ok]
           /\ UNCHANGED <<tableExists, written, callers, session>>

\* pages/6_User_Management.py run with the edit form submitted for the row of
\* username (a row listed earlier: its account may be gone by now):
\* update_user_roles, then update_user_password when a password was typed
PageEditUser(c) ==
    \E username \in PageUsernameArgs, roles \in PageRoleArgs,
       new_password \in PageNewPasswordArgs \cup {EmptyStr}, salt \in PageSalts :
        LET saved_roles == update_user_roles(tableExists, users, username, roles)
            saved_pw == IF new_password # EmptyStr
                        THEN update_user_password(tableExists, saved_roles.rows,
                                                  username, new_password, salt)
                        ELSE [out |-> TRUE, rows |-> saved_roles.rows]
        IN /\ guard_page("User Management", session[c]) = "pass"
           /\ users' = saved_pw.rows
           /\ ret' = [op |-> "edit_user_form",
                      ok |-> saved_roles.out /\ saved_pw.out]
           /\ UNCHANGED <<tableExists, written, callers, session>>

\* pages/6_User_Management.py run with "Confirm delete" clicked for the row of
\* username; the Delete button of the row of admin is disabled
PageDeleteUser(c) ==
    \E username \in PageUsernameArgs \ {Str("admin")} :
        LET r == delete_user(tableExists, users, username)
        IN /\ guard_page("User Management", session[c]) = "pass"
           /\ users' = r.rows
           /\ ret' = [op |-> "delete_user_dialog", ok |-> r.out]
           /\ UNCHANGED <<tableExists, written, callers, session>>

PageNext ==
    \E c \in Callers :
        \/ PageDashboard(c)
        \/ PageDashboardLogout(c)
        \/ PageOpen(c)
        \/ PageSidebarLogout(c)
        \/ PageLogin(c)
        \/ PageRegister(c)
        \/ PageListUsers(c)
        \/ PageCreateUser(c)
        \/ PageEditUser(c)
        \/ PageDeleteUser(c)

PageSpec == PageInit /\ [][PageNext]_vars

-----------------------------------------------------------------------------
(* A database left by an older version of the application: ROLE_REMAP is   *)
(* there for "older role names if they appear in the database".  The users *)
(* table exists and holds admin and alice, whose role field was written    *)
(* with legacy names, names that are no longer valid, and blanks.  The     *)
(* calls are those of the sequential system, made for these two accounts.  *)

LegacyRoleFields ==
    {Str("cyber"),
     <<"data_scientist", Comma, "bogus_role">>,
     <<Blank, "cyber_analyst", Blank, Comma, "it_ops">>}

LegacyInit ==
    /\ tableExists = TRUE
    /\ users \in {<<NewRow(Str("admin"), _hash_password(Str("admin"), 1), Str("admin")),
                    NewRow(Str("alice"), _hash_password(Str("pw"), 1), role)>> :
                      role \in LegacyRoleFields}
    /\ ret = [op |-> "init"]
    /\ written = [n \in Names |-> <<>>]
    /\ callers = [c \in Callers |-> Idle(0, NoCall)]
    /\ session = [c \in Callers |-> NoSession]

\* the accounts and passwords the calls on the legacy database are made with
LegacyUsernameArgs == {Str("admin"), Str("alice")}

LegacyPasswordArgs == {Str("pw"), Str("admin")}

LegacyRoleArgs == {<<>>, <<Str("cyber"), Str("it_ops")>>}

\* faulty variant of LegacyLoginUser: the roles read at a login are written back
LegacyLoginUser_migrating ==
    \E username \in LegacyUsernameArgs, password \in LegacyPasswordArgs :
        LET out == login_user(tableExists, users, username, password)
        IN /\ ret' = [op |-> "login_user", out |-> out]
           /\ users' = IF out = None THEN users
                        ELSE update_user_roles(tableExists, users, out.username,
                                               out.roles).rows
           /\ UNCHANGED <<tableExists, written, callers, session>>

\* login_form: login_user(username, password)
LegacyLoginUser ==
    \E username \in LegacyUsernameArgs, password \in LegacyPasswordArgs :
        /\ ret' = [op |-> "login_user",
                   out |-> login_user(tableExists, users, username, password)]
        /\ UNCHANGED <<tableExists, users, written, callers, session>>

\* show_edit_modal: update_user_roles(username, roles)
LegacyUpdateUserRoles ==
    \E username \in LegacyUsernameArgs, roles \in LegacyRoleArgs :
        LET r == update_user_roles(tableExists, users, username, roles)
        IN /\ users' = r.rows
           /\ ret' = [op |-> "update_user_roles", out |-> r.out,
                      changed |-> r.rows # users]
           /\ written' = HistUpdate(tableExists, users, username, roles)
           /\ UNCHANGED <<tableExists, callers, session>>

\* show_edit_modal: update_user_password(username, new_password)
LegacyUpdateUserPassword ==
    \E username \in LegacyUsernameArgs, new_password \in LegacyPasswordArgs,
       salt \in Salts :
        LET r == update_user_password(tableExists, users, username, new_password, salt)
        IN /\ users' = r.rows
           /\ ret' = [op |-> "update_user_password", out |-> r.out,
                      changed |-> r.rows # users]
           /\ UNCHANGED <<tableExists, written, callers, session>>

\* registration_form: register_user(username, password)
LegacyRegisterUser ==
    \E username \in LegacyUsernameArgs, password \in {Str("pw")}, salt \in Salts :
        LET r == register_user(tableExists, users, username, password, salt)
        IN /\ users' = r.rows
           /\ ret' = [op |-> "register_user", ok |-> r.ok, message |-> r.message,
                      changed |-> r.rows # users]
           /\ written' = HistInsert(users, r.rows, strip(username), <<>>)
           /\ UNCHANGED <<tableExists, callers, session>>

LegacyNext ==
    \/ DashboardStart
    \/ LegacyLoginUser
    \/ GetAllUsers
    \/ LegacyUpdateUserRoles
    \/ LegacyUpdateUserPassword
    \/ LegacyRegisterUser
    \/ DeleteUser

LegacySpec == LegacyInit /\ [][LegacyNext]_vars

-----------------------------------------------------------------------------
(* DatabaseManager when the storage fails.  Every call opens a connection  *)
(* of its own and then runs its statement; what the storage does to a call *)
(* is an input of the call: nothing, an sqlite3.Error while the statement  *)
(* runs (locked or damaged file), or an sqlite3.Error while                *)
(* sqlite3.connect opens the file (the file cannot be opened).             *)

Faults == {"none", "statement", "connect"}

\* an exception that leaves the call
Raised(exc) == [py |-> "raise", exc |-> exc]

OperationalError == Raised("sqlite3.OperationalError")

Connection == [py |-> "Connection"]

\* connect(): sqlite3.connect(self.db_path)
connect(fault) == IF fault = "connect" THEN OperationalError ELSE Connection

\* execute(sql, params): connect() before the try, the statement inside it;
\* done is the result and the rows the statement gives when it runs
DatabaseManager_execute(fault, rows, done) ==
    LET conn == connect(fault)
    IN IF conn = OperationalError THEN [result |-> conn, rows |-> rows]
       ELSE IF fault = "statement" THEN [result |-> None, rows |-> rows]
       ELSE done

\* fetch_one(sql, params); found is what the SELECT gives when it runs
DatabaseManager_fetch_one(fault, found) ==
    LET conn == connect(fault)
    IN IF conn = OperationalError THEN conn
       ELSE IF fault = "statement" THEN None
       ELSE found

\* fetch_all(sql, params); found is what the SELECT gives when it runs
DatabaseManager_fetch_all(fault, found) ==
    LET conn == connect(fault)
    IN IF conn = OperationalError THEN conn
       ELSE IF fault = "statement" THEN <<>>
       ELSE found

\* the statements of AuthManager, by their first word
Statements == {"INSERT", "UPDATE", "DELETE"}

StoreUsernameArgs == {Str("admin"), Str("alice")}

StoreRoleArgs == {Str("none"), Str("it_ops")}

StoreInit ==
    /\ tableExists = FALSE
    /\ users = <<>>
    /\ ret = [op |-> "init"]
    /\ written = [n \in Names |-> <<>>]
    /\ callers = [c \in Callers |-> Idle(0, NoCall)]
    /\ session = [c \in Callers |-> NoSession]

\* create_tables(): execute("CREATE TABLE IF NOT EXISTS users ...")
StoreCreateTables ==
    \E fault \in Faults :
        LET res == DatabaseManager_execute(fault, users,
                       [result |-> LastRowId, rows |-> users])
        IN /\ tableExists' = (tableExists \/ res.result = LastRowId)
           /\ ret' = [op |-> "execute", fault |-> fault, out |-> res.result]
           /\ UNCHANGED <<users, written, callers, session>>

\* execute(sql, params) with a statement of AuthManager
StoreExecute ==
    \E fault \in Faults, sql \in Statements,
       username \in StoreUsernameArgs, role \in StoreRoleArgs :
        LET done == CASE sql = "INSERT" ->
                             execute_insert(tableExists, users,
                                 NewRow(username, _hash_password(Str("pw"), 1), role))
                      [] sql = "UPDATE" ->
                             execute_update_role(tableExists, users, role, username)
                      [] sql = "DELETE" ->
                             execute_delete(tableExists, users, username)
            res == DatabaseManager_execute(fault, users, done)
        IN /\ users' = res.rows
           /\ ret' = [op |-> "execute", fault |-> fault, out |-> res.result]
           /\ UNCHANGED <<tableExists, written, callers, session>>

\* fetch_one("SELECT ... WHERE username = ?", (username,))
StoreFetchOne ==
    \E fault \in Faults, username \in StoreUsernameArgs :
        /\ ret' = [op |-> "fetch_one", fault |-> fault,
                   out |-> DatabaseManager_fetch_one(fault,
                               fetch_one(tableExists, users, username))]
        /\ UNCHANGED <<tableExists, users, written, callers, session>>

\* fetch_all("SELECT id, username, role FROM users ORDER BY username")
StoreFetchAll ==
    \E fault \in Faults :
        /\ ret' = [op |-> "fetch_all", fault |-> fault,
                   out |-> DatabaseManager_fetch_all(fault,
                               fetch_all(tableExists, users))]
        /\ UNCHANGED <<tableExists, users, written, callers, session>>

\* login_form: login_user(username, password), which calls fetch_one with no
\* try of its own, as does the page
StoreLoginUser ==
    \E fault \in Faults, username \in StoreUsernameArgs, password \in {Str("pw")} :
        LET row == DatabaseManager_fetch_one(fault,
                       fetch_one(tableExists, users, strip(username)))
        IN /\ ret' = [op |-> "login_user", fault |-> fault,
                      out |-> IF row = OperationalError THEN row
                              ELSE IF row = None THEN None
                              ELSE IF _verify_password(password, row.password_hash)
                              THEN User(row.username, _parse_roles(row.role))
                              ELSE None]
           /\ UNCHANGED <<tableExists, users, written, callers, session>>

StoreNext ==
    \/ StoreCreateTables
    \/ StoreExecute
    \/ StoreFetchOne
    \/ StoreFetchAll
    \/ StoreLoginUser

StoreSpec == StoreInit /\ [][StoreNext]_vars

-----------------------------------------------------------------------------
(* Helpers of the properties                                               *)

\* the set of the elements of a list
Elements(xs) == {xs[i] : i \in 1..Len(xs)}

OnlyValid(roles) == \A i \in 1..Len(roles) : roles[i] \in VALID_ROLES

-----------------------------------------------------------------------------
(* C10: for every role list made only of valid roles (any order, with or   *)
(* without duplicates, the empty list included), reading back what         *)
(* _serialise_roles stored gives a list with the same set of elements.     *)
C10_RoundTrip ==
    (ret.op = "round_trip" /\ OnlyValid(ret.arg))
        => Elements(ret.out) = Elements(ret.arg)

\* a list with a duplicate, out of VALID_ROLES order, has made the round trip
C10_Witness ==
    /\ ret.op = "round_trip"
    /\ ret.arg = <<Str("it_ops"), Str("admin"), Str("it_ops")>>
    /\ ret.stored = <<"it_ops", Comma, "admin", Comma, "it_ops">>
    /\ ret.out = ret.arg

\* no element of the list is a valid role
NoValidRole(roles) == \A i \in 1..Len(roles) : roles[i] \notin VALID_ROLES

(* C11: _serialise_roles of the empty list, and of any list with no valid  *)
(* role, gives the sentinel "none" and not the empty string; _parse_roles  *)
(* of the sentinel and of the empty string both give the empty list.       *)
C11_Sentinel ==
    /\ (ret.op \in {"_serialise_roles", "round_trip"} /\ NoValidRole(ret.arg)) =>
           LET stored == IF ret.op = "round_trip" THEN ret.stored ELSE ret.out
           IN stored = Str("none") /\ stored # EmptyStr
    /\ (ret.op = "_parse_roles" /\ ret.arg \in {Str("none"), EmptyStr}) =>
           ret.out = <<>>
    /\ (ret.op = "round_trip" /\ ret.stored \in {Str("none"), EmptyStr}) =>
           ret.out = <<>>

\* a list of an unknown and a legacy name was stored as the sentinel and read
\* back as the empty list
C11_Witness ==
    /\ ret.op = "round_trip"
    /\ ret.arg = <<Str("bogus_role"), Str("cyber")>>
    /\ ret.stored = Str("none")
    /\ ret.out = <<>>

\* the legacy names and the role each stands for
LegacyAlias ==
    {<<"cyber_analyst", "cybersec_eng">>, <<"cyber", "cybersec_eng">>,
     <<"data_scientist", "data_analyst">>}

\* the role an entry of a stored string stands for, once trimmed
Canonical(entry) ==
    LET word == strip(entry)
    IN IF \E p \in LegacyAlias : word = Str(p[1])
       THEN Str((CHOOSE p \in LegacyAlias : word = Str(p[1]))[2])
       ELSE word

\* the entries of a stored string (between its commas) that stand for a valid role
ValidEntries(raw) ==
    {k \in 1..Len(split(raw)) : Canonical(split(raw)[k]) \in VALID_ROLES}

(* C12: _parse_roles of a legacy name alone is the one-element list of the *)
(* role it stands for; and of any stored string it is the list, in order,  *)
(* of the roles its comma-separated entries stand for once trimmed and     *)
(* mapped, the entries that stand for no valid role dropped: every element *)
(* of the result is a valid role.                                          *)
C12_LegacyParse ==
    ret.op = "_parse_roles" =>
        /\ \A p \in LegacyAlias : ret.arg = Str(p[1]) => ret.out = <<Str(p[2])>>
        /\ OnlyValid(ret.out)
        /\ Elements(ret.out) = {Canonical(split(ret.arg)[k]) : k \in ValidEntries(ret.arg)}
        /\ Len(ret.out) = Cardinality(ValidEntries(ret.arg))

\* a stored string with blanks, an empty entry and a legacy name has been parsed
C12_Witness ==
    /\ ret.op = "_parse_roles"
    /\ ret.arg = <<Blank, "cyber", Blank, Comma, Comma, "it_ops", Blank>>
    /\ ret.out = <<Str("cybersec_eng"), Str("it_ops")>>

-----------------------------------------------------------------------------
(* Properties of the sequential system.  A property of what a method       *)
(* returns is stated for every argument on every reachable table: the      *)
(* method is applied to the state at hand.                                 *)

Admin == Str("admin")

\* the rows of the account named name
Accounts(rows, name) == {rows[i] : i \in Matching(rows, name)}

\* the password a stored hash was made from is password
MadeFrom(password_hash, password) == password_hash.pw = password

(* C1: once ensure_admin_user has run on a store with a users table (in    *)
(* the sequential system: whenever the table exists), exactly one account  *)
(* named "admin" exists and its parsed roles contain admin.                *)
C1_AdminInvariant ==
    tableExists =>
        /\ Cardinality(Matching(users, Admin)) = 1
        /\ \A row \in Accounts(users, Admin) :
               Str("admin") \in Elements(_parse_roles(row.role))

(* C2: delete_user("admin") returns False and leaves the table as it is;   *)
(* delete_user(u) for an existing account u other than "admin" returns     *)
(* True, after which u is not listed by get_all_users, login_user(u, p)    *)
(* returns None for every p, and every other account is unchanged.         *)
C2_Delete ==
    /\ LET r == delete_user(tableExists, users, Admin)
       IN r.out = FALSE /\ r.rows = users
    /\ \A i \in 1..Len(users) :
           LET u == users[i].username
               r == delete_user(tableExists, users, u)
               listed == get_all_users(tableExists, r.rows)
           IN u # Admin =>
                  /\ r.out = TRUE
                  /\ \A k \in 1..Len(listed) : listed[k].username # u
                  /\ \A p \in LoginPasswordArgs :
                         login_user(tableExists, r.rows, u, p) = None
                  /\ \A n \in Names \ {u} : Accounts(r.rows, n) = Accounts(users, n)
                  /\ Len(r.rows) = Len(users) - 1

\* delete_user has removed alice and left admin
C2_Witness ==
    /\ ret.op = "delete_user" /\ ret.out = TRUE /\ ret.changed
    /\ Accounts(users, Str("alice")) = {}
    /\ Accounts(users, Admin) # {}

(* C3: login_user returns None whenever the username is empty after        *)
(* trimming, the password is empty, no account has the trimmed username,   *)
(* or the password is not the one the stored hash was made from; it        *)
(* returns an identity only when an account with the trimmed username      *)
(* exists and the password is the one of its current hash.                 *)
C3_LoginFailsClosed ==
    \A username \in UsernameArgs, password \in LoginPasswordArgs :
        LET out == login_user(tableExists, users, username, password)
            accounts == Accounts(users, strip(username))
        IN /\ ( \/ strip(username) = EmptyStr
                \/ password = EmptyStr
                \/ accounts = {}
                \/ \A row \in accounts : ~MadeFrom(row.password_hash, password) )
               => out = None
           /\ out # None =>
                  \E row \in accounts :
                      /\ MadeFrom(row.password_hash, password)
                      /\ out.username = row.username

\* a login of alice has returned her identity while admin has another password
C3_Witness ==
    /\ ret.op = "login_user" /\ ret.out # None
    /\ ret.out.username = Str("alice")
    /\ \E a \in Accounts(users, Str("alice")), b \in Accounts(users, Admin) :
           a.password_hash.pw # b.password_hash.pw

(* C4: a successful login_user(u, p) returns an identity whose username    *)
(* is u (trimmed, as it is looked up) and whose roles are the valid roles  *)
(* of the role list most recently written for u by register_user,          *)
(* create_user, ensure_admin_user or update_user_roles, in the same order. *)
C4_LoginRoles ==
    \A username \in UsernameArgs, password \in LoginPasswordArgs :
        LET out == login_user(tableExists, users, username, password)
        IN out # None =>
               /\ out.username = strip(username)
               /\ written[out.username] # <<>>
               /\ out.roles = SelectSeq(written[out.username][1], IsValidRole)

\* alice, whose roles were last written from the mixed list, has logged in
C4_Witness ==
    /\ ret.op = "login_user" /\ ret.out # None
    /\ ret.out.username = Str("alice")
    /\ written[Str("alice")] =
           Some(<<Str("bogus_role"), Str("cyber"), EmptyStr, Str("it_ops")>>)
    /\ ret.out.roles = <<Str("it_ops")>>

(* C5: when register_user(u, p1) has succeeded and register_user(u, p2)    *)
(* is then called with a non-empty p2, the second call returns ok=False    *)
(* with the duplicate message and leaves the table as the first left it.   *)
C5_RegisterTwice ==
    \A username \in UsernameArgs, p1 \in PasswordArgs, p2 \in PasswordArgs,
       s1 \in Salts, s2 \in Salts :
        LET r1 == register_user(tableExists, users, username, p1, s1)
            r2 == register_user(tableExists, r1.rows, username, p2, s2)
        IN (r1.ok /\ p2 # EmptyStr) =>
               /\ r2.ok = FALSE
               /\ r2.message = MsgExists
               /\ r2.rows = r1.rows

(* C6, as claimed: register_user and create_user return ok=False and       *)
(* leave the table unchanged whenever the username or the password is      *)
(* empty after trimming.  Stated for a store whose users table exists.     *)
C6_Original ==
    tableExists =>
        \A username \in UsernameArgs, password \in PasswordArgs,
           roles \in RoleArgs, salt \in Salts :
            LET r == register_user(tableExists, users, username, password, salt)
                c == create_user(tableExists, users, username, password, roles, salt)
            IN (strip(username) = EmptyStr \/ strip(password) = EmptyStr) =>
                   /\ r.ok = FALSE /\ r.rows = users
                   /\ c.ok = FALSE /\ c.rows = users

(* C6, amended: register_user and create_user return ok=False and leave    *)
(* the table unchanged whenever the username is empty after trimming or    *)
(* the password is the empty string; the password is not trimmed, and one  *)
(* made only of whitespace is not refused as missing.                      *)
C6_RequiredFields ==
    \A username \in UsernameArgs, password \in PasswordArgs,
       roles \in RoleArgs, salt \in Salts :
        LET r == register_user(tableExists, users, username, password, salt)
            c == create_user(tableExists, users, username, password, roles, salt)
        IN /\ (strip(username) = EmptyStr \/ password = EmptyStr) =>
                  /\ r.ok = FALSE /\ r.message = MsgRequired /\ r.rows = users
                  /\ c.ok = FALSE /\ c.message = MsgRequired /\ c.rows = users
           /\ (strip(username) # EmptyStr /\ password = <<Blank>>) =>
                  /\ r.message # MsgRequired
                  /\ c.message # MsgRequired

\* a call has been refused for a missing field on a table that holds accounts
C6_Witness ==
    /\ ret.op \in {"register_user", "create_user"}
    /\ ret.ok = FALSE /\ ret.message = MsgRequired /\ ~ret.changed
    /\ Len(users) = 2

(* C7: no call returns a success result while the storage write it made    *)
(* failed: register_user and create_user return ok=True only when the      *)
(* account was written, and update_user_roles, update_user_password and    *)
(* delete_user return True only when their statement ran on the table.     *)
C7_WriteFailureReported ==
    /\ (ret.op \in {"register_user", "create_user"} /\ ret.ok) => ret.changed
    /\ (ret.op \in {"update_user_roles", "update_user_password", "delete_user"}
            /\ ret.out) => tableExists

(* C14: ensure_admin_user called when an account named "admin" exists      *)
(* leaves the table as it is (password hash and role of admin included),   *)
(* and two calls in sequence, from any state, leave exactly one account    *)
(* named "admin".                                                          *)
C14_EnsureIdempotent ==
    \A s1 \in Salts, s2 \in Salts :
        LET once == ensure_admin_user(tableExists, users, s1)
            twice == ensure_admin_user(tableExists, once, s2)
        IN /\ Accounts(users, Admin) # {} => once = users
           /\ Cardinality(Matching(twice, Admin)) = 1

(* C16: update_user_roles, update_user_password (with a non-empty          *)
(* password) and delete_user called with a username that has no account    *)
(* return False and leave the table unchanged.                             *)
C16_UnknownUser ==
    \A username \in UsernameArgs, roles \in RoleArgs,
       new_password \in PasswordArgs \ {EmptyStr}, salt \in Salts :
        LET r == update_user_roles(tableExists, users, username, roles)
            p == update_user_password(tableExists, users, username, new_password, salt)
            d == delete_user(tableExists, users, username)
        IN Accounts(users, username) = {} =>
               /\ r.out = FALSE /\ r.rows = users
               /\ p.out = FALSE /\ p.rows = users
               /\ d.out = FALSE /\ d.rows = users

(* C17: update_user_password(u, "") returns False for every u and leaves   *)
(* the table unchanged, so login_user answers as before for u;             *)
(* update_user_password(u, p) with a non-empty p for an existing u returns *)
(* True and replaces the stored hash of u by one made from p.              *)
C17_SetPassword ==
    \A username \in UsernameArgs, salt \in Salts :
        /\ LET e == update_user_password(tableExists, users, username, EmptyStr, salt)
           IN /\ e.out = FALSE
              /\ e.rows = users
              /\ \A q \in LoginPasswordArgs :
                     login_user(tableExists, e.rows, username, q)
                         = login_user(tableExists, users, username, q)
        /\ \A p \in PasswordArgs \ {EmptyStr} :
               LET r == update_user_password(tableExists, users, username, p, salt)
               IN Accounts(users, username) # {} =>
                      /\ r.out = TRUE
                      /\ Len(r.rows) = Len(users)
                      /\ \A i \in Matching(users, username) :
                             /\ r.rows[i].username = username
                             /\ MadeFrom(r.rows[i].password_hash, p)
                             /\ r.rows[i].password_hash.salt = salt
                      /\ login_user(tableExists, r.rows, username, p) # None
                      /\ \A q \in LoginPasswordArgs \ {p} :
                             login_user(tableExists, r.rows, username, q) = None

\* the password of admin has been replaced, and a call with the empty
\* password has then been refused
C17_Witness ==
    /\ ret.op = "update_user_password" /\ ret.out = FALSE /\ ~ret.changed
    /\ \E row \in Accounts(users, Admin) : MadeFrom(row.password_hash, Str("pw"))

(* C22: update_user_roles(u, roles) leaves the password hash of u and      *)
(* every field of every other account as they were, and                    *)
(* update_user_password(u, p) leaves the role field of u and every field   *)
(* of every other account as they were; neither adds, removes, renames or  *)
(* reorders a row.                                                         *)
C22_UpdateFrame ==
    \A username \in UsernameArgs, roles \in RoleArgs,
       password \in PasswordArgs, salt \in Salts :
        LET r == update_user_roles(tableExists, users, username, roles).rows
            p == update_user_password(tableExists, users, username, password, salt).rows
        IN /\ Len(r) = Len(users) /\ Len(p) = Len(users)
           /\ \A i \in 1..Len(users) :
                  /\ r[i].username = users[i].username
                  /\ r[i].password_hash = users[i].password_hash
                  /\ p[i].username = users[i].username
                  /\ p[i].role = users[i].role
                  /\ users[i].username # username => (r[i] = users[i] /\ p[i] = users[i])

\* the password of alice has been replaced: she keeps the role it_ops, and
\* admin keeps the bootstrap password and role
C22_Witness ==
    /\ ret.op = "update_user_password" /\ ret.out /\ ret.changed
    /\ \E row \in Accounts(users, Str("alice")) :
           row.role = Str("it_ops") /\ row.password_hash.pw = <<Blank>>
    /\ \E row \in Accounts(users, Admin) :
           row.role = Str("admin") /\ MadeFrom(row.password_hash, Str("admin"))

Hashes(rows, name) == {row.password_hash : row \in Accounts(rows, name)}

\* update_user_password(u, new) on an existing account: new logs in, no other
\* password does
PasswordReplaced ==
    \A username \in UsernameArgs, new \in PasswordArgs \ {EmptyStr}, salt \in Salts :
        LET r == update_user_password(tableExists, users, username, new, salt)
            out == login_user(tableExists, r.rows, username, new)
        IN (Accounts(users, username) # {} /\ r.out) =>
               /\ out # None /\ out.username = username
               /\ \A old \in LoginPasswordArgs \ {new} :
                      login_user(tableExists, r.rows, username, old) = None

\* delete_user(u) and then register_user(u, p2): one account of u with no
\* roles, which p2 logs into and no other password does
DeletedAndRegistered ==
    \A i \in 1..Len(users), p2 \in PasswordArgs \ {EmptyStr}, salt \in Salts :
        LET u == users[i].username
            d == delete_user(tableExists, users, u)
            r == register_user(tableExists, d.rows, u, p2, salt)
        IN u # Admin =>
               /\ d.out /\ Accounts(d.rows, u) = {}
               /\ r.ok
               /\ Cardinality(Matching(r.rows, u)) = 1
               /\ \A row \in Accounts(r.rows, u) : _parse_roles(row.role) = <<>>
               /\ login_user(tableExists, r.rows, u, p2) = User(u, <<>>)
               /\ \A p1 \in LoginPasswordArgs \ {p2} :
                      login_user(tableExists, r.rows, u, p1) = None

\* in a step, the stored password of an existing account changes only by an
\* update_user_password or delete_user call that touches no other account,
\* and the passwords login_user accepts for it change with nothing else
\* (a step that leaves the store as it is changes neither)
PasswordKept ==
    (users' # users \/ tableExists' # tableExists) =>
        \A n \in Names :
            /\ (Hashes(users, n) # {} /\ Hashes(users', n) # Hashes(users, n)) =>
                   /\ ret'.op \in {"update_user_password", "delete_user"}
                   /\ \A k \in Names \ {n} : Hashes(users', k) = Hashes(users, k)
                   /\ ret'.op = "delete_user" => Hashes(users', n) = {}
            /\ (Hashes(users, n) # {} /\ Hashes(users', n) = Hashes(users, n)) =>
                   \A p \in LoginPasswordArgs :
                       (login_user(tableExists', users', n, p) = None)
                           <=> (login_user(tableExists, users, n, p) = None)

(* C29: after update_user_password(u, new) has returned True for an        *)
(* existing account u, login_user(u, new) returns the identity of u and    *)
(* login_user(u, old) returns None for every other password, and that      *)
(* stays so across every call until an update_user_password or delete_user *)
(* for u; deleting u and registering u again gives one account with no     *)
(* roles that only the newly chosen password logs into.                    *)
C29_PasswordLifecycle ==
    /\ []PasswordReplaced
    /\ []DeletedAndRegistered
    /\ [][PasswordKept]_vars

\* the password of alice, who has no roles, has been replaced, and admin
\* still has the bootstrap password
C29_Witness ==
    /\ ret.op = "update_user_password" /\ ret.out /\ ret.changed
    /\ \E row \in Accounts(users, Str("alice")) :
           row.role = Str("none") /\ row.password_hash = _hash_password(<<Blank>>, 1)
    /\ \E row \in Accounts(users, Admin) : MadeFrom(row.password_hash, Str("admin"))
    /\ login_user(tableExists, users, Str("alice"), Str("pw")) = None
    /\ login_user(tableExists, users, Str("alice"), <<Blank>>) # None

\* a stored role field is the sentinel or a comma-joined list of valid roles
IsRoleField(role) ==
    \/ role = DEFAULT_ROLE_SENTINEL
    \/ \A k \in 1..Len(split(role)) : split(role)[k] \in VALID_ROLES

\* a stored role field with a legacy name or an entry that is not a valid role
Unmigrated(role) == ~IsRoleField(role)

(* C21: login_user and get_all_users leave the table as it is, and what    *)
(* they return is a function of their arguments and the table alone.  A    *)
(* stored role field with a legacy or invalid entry is migrated in the     *)
(* returned roles only (valid roles, the raw field listed beside them):    *)
(* the field stays as it was across every call that is not an              *)
(* update_user_roles for its account, for as long as the account exists.   *)
C21_ReadOnly ==
    [][ /\ (ret'.op \in {"login_user", "get_all_users"}) =>
               (users' = users /\ tableExists' = tableExists)
        /\ (ret'.op = "login_user") =>
               \E username \in LegacyUsernameArgs, password \in LegacyPasswordArgs :
                   ret'.out = login_user(tableExists, users, username, password)
        /\ (ret'.op = "get_all_users") =>
               ret'.out = get_all_users(tableExists, users)
        /\ \A i \in 1..Len(users) :
               Unmigrated(users[i].role) =>
                   LET name == users[i].username
                       listed == get_all_users(tableExists, users)
                   IN /\ \A k \in 1..Len(listed) :
                             listed[k].username = name =>
                                 /\ listed[k].role = users[i].role
                                 /\ listed[k].roles = _parse_roles(users[i].role)
                                 /\ OnlyValid(listed[k].roles)
                      /\ \A p \in LegacyPasswordArgs :
                             LET out == login_user(tableExists, users, name, p)
                             IN out # None =>
                                    out.roles = _parse_roles(users[i].role)
                      /\ (written'[name] = written[name]) =>
                             \A row \in Accounts(users', name) :
                                 row.role = users[i].role
      ]_vars

\* alice has logged in with the roles her legacy role field stands for, and
\* the field is still as the older version wrote it
C21_Witness ==
    /\ ret.op = "login_user" /\ ret.out # None
    /\ ret.out = User(Str("alice"), <<Str("cybersec_eng"), Str("it_ops")>>)
    /\ written[Str("alice")] = <<>>
    /\ \E row \in Accounts(users, Str("alice")) :
           row.role = <<Blank, "cyber_analyst", Blank, Comma, "it_ops">>

(* C9: the role field of every stored account is the sentinel "none" or a  *)
(* non-empty comma-joined list of valid roles, whatever role lists         *)
(* (unknown, legacy or empty names included) the calls were given.         *)
C9_RoleField ==
    \A i \in 1..Len(users) : IsRoleField(users[i].role)

\* alice's role field was written from the list with unknown, legacy and empty names
C9_Witness ==
    /\ written[Str("alice")] =
           Some(<<Str("bogus_role"), Str("cyber"), EmptyStr, Str("it_ops")>>)
    /\ \E row \in Accounts(users, Str("alice")) : row.role = Str("it_ops")
    /\ \E row \in Accounts(users, Admin) : row.role = DEFAULT_ROLE_SENTINEL

-----------------------------------------------------------------------------
(* Properties of the page system                                           *)

\* the valid names of a role list, in its order
ValidNames(roles) == SelectSeq(roles, IsValidRole)

\* the entries get_all_users lists for name
Listed(rows, name) ==
    LET listed == get_all_users(tableExists, rows)
    IN {k \in 1..Len(listed) : listed[k].username = name}

(* C13: whenever the create form can be reached (a session passes the      *)
(* guard of the User Management page), create_user(u, p, roles) with a     *)
(* username that has no account and a non-empty password returns ok=True   *)
(* for every role list, lists with names outside the valid set included:   *)
(* the role field written for u holds exactly the valid names of the       *)
(* argument, get_all_users then lists u once with exactly those roles, and *)
(* the other accounts are as they were.                                    *)
C13_CreateWithRoles ==
    (\E c \in Callers : guard_page("User Management", session[c]) = "pass") =>
        \A username \in UsernameArgs \cup PageUsernameArgs, password \in PasswordArgs,
           roles \in RoleArgs \cup PageRoleArgs, salt \in Salts :
            LET name == strip(username)
                r == create_user(tableExists, users, username, password, roles, salt)
                listed == get_all_users(tableExists, r.rows)
            IN (name # EmptyStr /\ password # EmptyStr /\ Accounts(users, name) = {}) =>
                   /\ r.ok = TRUE /\ r.message = MsgCreated
                   /\ Cardinality(Matching(r.rows, name)) = 1
                   /\ \A row \in Accounts(r.rows, name) :
                          /\ MadeFrom(row.password_hash, password)
                          /\ IF ValidNames(roles) = <<>>
                             THEN row.role = Str("none")
                             ELSE split(row.role) = ValidNames(roles)
                   /\ Cardinality(Listed(r.rows, name)) = 1
                   /\ \A k \in Listed(r.rows, name) : listed[k].roles = ValidNames(roles)
                   /\ \A n \in Names \ {name} : Accounts(r.rows, n) = Accounts(users, n)

\* the create form has made the account of Alice with the roles it was given
C13_Witness ==
    /\ ret.op = "create_user_form" /\ ret.ok
    /\ \E row \in Accounts(users, Str("Alice")) :
           row.role = <<"data_analyst", Comma, "admin">>
    /\ \E row \in Accounts(users, Admin) : row.role = Str("it_ops")

\* the usernames of the model in ascending order: upper case before lower case
AscendingNames == <<Str("Alice"), Str("admin"), Str("alice")>>

\* the place of a username in the ascending order
Place(name) == CHOOSE k \in 1..Len(AscendingNames) : AscendingNames[k] = name

(* C18: get_all_users returns exactly one entry per stored account, in     *)
(* ascending order of username, and the roles of each entry are            *)
(* _parse_roles of the role field stored for that account.                 *)
C18_ListAccounts ==
    LET listed == get_all_users(tableExists, users)
    IN /\ Len(listed) = Len(users)
       /\ \A n \in Names :
              Cardinality(Listed(users, n)) = Cardinality(Matching(users, n))
       /\ \A k \in 1..(Len(listed) - 1) :
              Place(listed[k].username) < Place(listed[k + 1].username)
       /\ \A k \in 1..Len(listed) :
              \A row \in Accounts(users, listed[k].username) :
                  listed[k].roles = _parse_roles(row.role)

\* the directory has been listed with Alice before admin, whose row is older,
\* and with different roles for the two
C18_Witness ==
    /\ ret.op = "user_directory"
    /\ Len(ret.out) = 2
    /\ ret.out[1].username = Str("Alice") /\ ret.out[1].roles = <<Str("it_ops")>>
    /\ ret.out[2].username = Admin
    /\ ret.out[2].roles = <<Str("data_analyst"), Str("admin")>>
    /\ users[1].username = Admin

(* C19: a logged-in session whose roles contain admin passes the guard of  *)
(* every role-gated page (Incident Reporting, Data Analysis, IT Ticketing, *)
(* User Management, AI Workspace, Settings) and has every Dashboard card   *)
(* enabled, whatever other roles it holds or lacks: for the roles the      *)
(* sessions hold, and for every list of up to two role names with admin.   *)
C19_AdminSuperset ==
    /\ \A c \in Callers :
           (session[c].logged_in /\ Str("admin") \in Elements(session[c].roles)) =>
               \A page \in GatedPages :
                   /\ guard_page(page, session[c]) = "pass"
                   /\ allowed(page, session[c].roles)
    /\ (ret.op = "Dashboard" /\ ret.outcome = "pass"
            /\ Str("admin") \in Elements(session[ret.c].roles)) =>
           ret.cards = GatedPages
    /\ \A c \in Callers, roles \in RoleLists(2) :
           (session[c].logged_in /\ Str("admin") \in Elements(roles)) =>
               \A page \in GatedPages :
                   /\ guard_page(page, [session[c] EXCEPT !.roles = roles]) = "pass"
                   /\ allowed(page, roles)

\* a session whose only role is admin has opened the IT Ticketing page
C19_Witness ==
    /\ ret.op = "open" /\ ret.page = "IT Ticketing" /\ ret.outcome = "pass"
    /\ session[ret.c].logged_in
    /\ session[ret.c].roles = <<Str("admin")>>

(* C24: once delete_user(u) has removed the account of u, no session      *)
(* whose identity is u passes the guard of a role-gated page (Settings,    *)
(* whose guard looks at no role, left aside): a page opened by a session   *)
(* that passes such a guard belongs to an account that exists.             *)
C24_DeleteRevokes ==
    (ret.op = "open" /\ ret.outcome = "pass" /\ ret.page # "Settings") =>
        Accounts(users, session[ret.c].username) # {}

(* C27: for every logged-in session and every Dashboard card, the card is *)
(* enabled exactly when the guard of the page it opens lets the session    *)
(* through; and a page run of User Management or Settings that gets past   *)
(* its guard belongs to a session with the admin role.                     *)
C27_CardIffGuard ==
    /\ \A c \in Callers :
           session[c].logged_in =>
               \A page \in GatedPages :
                   allowed(page, session[c].roles)
                       <=> (guard_page(page, session[c]) = "pass")
    /\ (ret.op = "open" /\ ret.outcome = "pass"
            /\ ret.page \in {"User Management", "Settings"}) =>
           Str("admin") \in Elements(session[ret.c].roles)

(* C28: a session becomes or stays logged in with a new identity only by  *)
(* a login_form run of that session in which login_user returned an        *)
(* identity, and then holds exactly that username and those roles; it      *)
(* stops being logged in only by "Log out", which leaves logged_in False,  *)
(* username "" and roles []; and while a session is not logged in (before  *)
(* its first login, and from a logout to the next login) it holds no       *)
(* identity, and the Dashboard and every page guard send it to the login   *)
(* page.                                                                   *)
C28_SessionLifecycle ==
    [][ \A c \in Callers :
            /\ (session'[c].logged_in /\ session'[c] # session[c]) =>
                   /\ ret'.op = "login_form" /\ ret'.c = c
                   /\ ret'.user # None
                   /\ \E username \in PageUsernameArgs, password \in PagePasswordArgs :
                          ret'.user = login_user(tableExists', users', username, password)
                   /\ session'[c].username = ret'.user.username
                   /\ session'[c].roles = ret'.user.roles
            /\ (session[c].logged_in /\ ~session'[c].logged_in) =>
                   /\ ret'.op = "logout"
                   /\ session'[c].username = EmptyStr
                   /\ session'[c].roles = <<>>
            /\ (ret'.op = "login_form" /\ ret'.c = c /\ ret'.user # None) =>
                   session'[c] = LoggedIn(ret'.user)
            /\ ~session'[c].logged_in =>
                   /\ session'[c] = NoSession
                   /\ guard_login(session'[c]) = "login"
                   /\ \A page \in GatedPages : guard_page(page, session'[c]) = "login"
      ]_vars

\* session 1 has just logged out while session 2 stays logged in as Alice
C28_Witness ==
    /\ ret.op = "logout"
    /\ session[1] = NoSession
    /\ session[2] = LoggedIn(User(Str("Alice"), <<Str("it_ops")>>))
    /\ guard_page("IT Ticketing", session[1]) = "login"
    /\ guard_page("IT Ticketing", session[2]) = "pass"

-----------------------------------------------------------------------------
(* Properties of the concurrent system                                     *)

(* C8: in every state of every interleaving of register_user, create_user  *)
(* and ensure_admin_user calls, no two rows share a username, every stored *)
(* username is non-empty and has no leading or trailing whitespace, and a  *)
(* lookup finds only the row whose username is exactly the one asked for   *)
(* (names that differ in letter case are separate accounts).               *)
C8_UniqueUsernames ==
    /\ \A i \in 1..Len(users), j \in 1..Len(users) :
           i # j => users[i].username # users[j].username
    /\ \A i \in 1..Len(users) :
           /\ users[i].username # EmptyStr
           /\ strip(users[i].username) = users[i].username
    /\ \A name \in Names :
           LET row == fetch_one(tableExists, users, name)
           IN row # None => row.username = name

\* both callers were told ok=True for "alice" (with different passwords),
\* one row named alice exists, and "Alice" is an account of its own
C8_Witness ==
    /\ \A c \in Callers : callers[c].at = "idle"
    /\ callers[1].last = Accepted("register_user", Str("alice"), Str("pw"))
    /\ callers[2].last = Accepted("register_user", Str("alice"), <<Blank>>)
    /\ Cardinality(Matching(users, Str("alice"))) = 1
    /\ Cardinality(Matching(users, Str("Alice"))) = 1
    /\ Cardinality(Matching(users, Admin)) = 1

(* C15: once ensure_admin_user has returned from a run on a store that has *)
(* the users table, and no call has changed the password or the role of    *)
(* admin since (the concurrent system has no such call), an account named  *)
(* "admin" exists that login_user accepts with the default password        *)
(* "admin" and that carries the admin role, whatever register_user and     *)
(* create_user calls came before.                                          *)
C15_DefaultAdmin ==
    (\E c \in Callers :
        /\ callers[c].at = "idle"
        /\ callers[c].last = Ensured(TRUE)) =>
            LET out == login_user(tableExists, users, Admin, Str("admin"))
            IN /\ Accounts(users, Admin) # {}
               /\ out # None
               /\ Str("admin") \in Elements(out.roles)

(* C26: when two callers run register_user or create_user for the same    *)
(* fresh username with different passwords on a store that has the users   *)
(* table, every caller that was told ok=True can then log in with the      *)
(* password it gave (no call changes a password or deletes an account      *)
(* here): so at most one of the two is told ok=True.                       *)
C26_RegisterRace ==
    \A c \in Callers :
        (/\ callers[c].at = "idle"
         /\ callers[c].last.op \in {"register_user", "create_user"}
         /\ callers[c].last.ok) =>
            login_user(tableExists, users, callers[c].last.username,
                       callers[c].last.password) # None

\* the step is the INSERT of register_user, create_user or ensure_admin_user
\* for name, run by some caller
InsertStep(name) ==
    \E c \in Callers :
        /\ callers[c].at = "insert" /\ callers'[c].at = "idle"
        /\ callers[c].row.username = name

\* the step is the return of delete_user(name) with True to some caller
DeleteStep(name) ==
    \E c \in Callers :
        /\ callers[c].at = "idle" /\ callers'[c].at = "idle"
        /\ callers'[c].made = callers[c].made + 1
        /\ callers'[c].last = Deleted(name, TRUE)

(* C30: in every interleaving of delete_user(u) with update_user_roles(u)  *)
(* and update_user_password(u) calls, when delete_user(u) returns True no  *)
(* account named u exists, and an account that does not exist comes to     *)
(* exist only by the INSERT of a register_user, create_user or             *)
(* ensure_admin_user call: no UPDATE, begun before or after the deletion,  *)
(* brings it back.  An account ceases to exist only by delete_user.        *)
C30_NotResurrected ==
    [][ \A name \in Names :
            /\ DeleteStep(name) => Accounts(users', name) = {}
            /\ (Accounts(users, name) = {} /\ Accounts(users', name) # {}) =>
                   InsertStep(name)
            /\ (Accounts(users, name) # {} /\ Accounts(users', name) = {}) =>
                   DeleteStep(name)
      ]_vars

\* caller 1 has deleted alice; the UPDATE of caller 2's update_user_roles for
\* alice ran after that, found no row and returned True; alice has no account
C30_Witness ==
    /\ callers[1].at = "idle" /\ callers[1].last = Deleted(Str("alice"), TRUE)
    /\ callers[2].at = "idle" /\ callers[2].last.op = "update_user_roles"
    /\ callers[2].last.username = Str("alice")
    /\ ~callers[2].last.found /\ callers[2].last.out
    /\ callers[1].made = 1 /\ callers[2].made = 1
    /\ Accounts(users, Str("alice")) = {}
    /\ Accounts(users, Str("admin")) # {}

\* the last calls of all callers were update_user_roles for username, whose
\* account existed when each ran
BothUpdated(username) ==
    \A c \in Callers :
        /\ callers[c].at = "idle"
        /\ callers[c].last.op = "update_user_roles"
        /\ callers[c].last.username = username
        /\ callers[c].last.found

(* C20: when two callers run update_user_roles for the same existing       *)
(* username, in every interleaving both calls return True and the role     *)
(* field stored at the end is _serialise_roles of one of the two role      *)
(* lists: not a mixture of the two, and not the value from before the      *)
(* calls ("none" from register_user, "it_ops" from create_user).           *)
C20_LastWriteWins ==
    \A username \in ConcUpdateUsernameArgs :
        BothUpdated(username) =>
            /\ Accounts(users, username) # {}
            /\ \A c \in Callers : callers[c].last.out = TRUE
            /\ \A row \in Accounts(users, username) :
                   \E c \in Callers :
                       /\ row.role = join(ValidNames(callers[c].last.roles))
                       /\ written[username] = Some(callers[c].last.roles)
            /\ \A row \in Accounts(users, username) :
                   row.role \notin {Str("none"), Str("it_ops")}

\* both callers were inside update_user_roles for alice with different lists;
\* caller 1 ran its UPDATE first, and the list of caller 2 is what is stored
C20_Witness ==
    /\ BothUpdated(Str("alice"))
    /\ callers[1].last = Updated(Str("alice"), <<Str("data_analyst")>>, TRUE, TRUE, TRUE)
    /\ callers[2].last =
           Updated(Str("alice"), <<Str("admin"), Str("bogus_role")>>, TRUE, TRUE, FALSE)
    /\ \E row \in Accounts(users, Str("alice")) : row.role = Str("admin")

-----------------------------------------------------------------------------
(* Properties of DatabaseManager under storage faults                      *)

(* C23: every storage failure, a failure to open the connection included,  *)
(* becomes a result value: None from execute and fetch_one, the empty list *)
(* from fetch_all (and so None from login_user); no exception leaves       *)
(* DatabaseManager for AuthManager or the pages.                           *)
C23_StorageErrors ==
    (ret.op \in {"execute", "fetch_one", "fetch_all", "login_user"}
        /\ ret.fault # "none") =>
            /\ ret.out # OperationalError
            /\ ret.op \in {"execute", "fetch_one", "login_user"} => ret.out = None
            /\ ret.op = "fetch_all" => ret.out = <<>>

=============================================================================
